---- MODULE Spec2Model ----
(***************************************************************************)
(* Model of SystemMonitor (src/src/SystemMonitor.h, SystemMonitor.cpp):    *)
(* the hardware snapshot and CPU history written by Update(), the process  *)
(* cache, and the background weather worker with its request/stop flags.   *)
(*                                                                         *)
(* Threads: "drv" is the thread that calls Update() each frame, "rdr" is a *)
(* consumer thread calling the accessors, "wrk" is m_weatherThread.  Each  *)
(* thread has a program counter; one action is one step between two        *)
(* points where another thread can observe or interfere.                   *)
(*                                                                         *)
(* Numbers: cpu load is an integer percentage (the float quotient rounded  *)
(* down); unsigned long long is an unsigned integer of CounterBits bits;   *)
(* RAM sizes are whole GB.  A std::string is a sequence of one-character   *)
(* strings.  WeatherInfo::lastUpdated (a wall-clock time) is left out.     *)
(***************************************************************************)
EXTENDS Integers, Sequences, FiniteSets, TLC

\* ------------------------------------------------------------------ bounds

\* Modelled width of unsigned long long, in bits.
CounterBits == 3

\* How many times the driving thread calls Update().
MaxUpdates == 5

\* How many times RequestWeatherRefresh() is called.
MaxRequests == 3

\* Capacity of the CPU history (256 in the source, scaled down here).
MaxHistory == 3

Modulus == 2 ^ CounterBits

\* ------------------------------------------------------------------- state

VARIABLES
    phase,              \* lifetime of the object: "new", "live", "joining", "destroyed"
    m_hwMutex,          \* owner of m_hwMutex: "free" or a thread
    m_hwStats,          \* HardwareStats m_hwStats
    m_cpuHistory,       \* std::vector<float> m_cpuHistory
    m_lastTotalJiffies, \* CPU baseline kept between SampleCpuUsage calls
    m_lastIdleJiffies,
    procStat,           \* the cumulative counters of the "cpu" line of /proc/stat
    statOk,             \* whether the latest SampleCpuUsage() call could read them
    pcU,                \* position of "drv" inside Update()
    cpu,                \* value returned by the latest SampleCpuUsage() call
    stats,              \* local HardwareStats stats of UpdateHardware
    procs,              \* local result of QueryProcesses() in Update
    nUpdates,           \* number of Update() calls started
    sampleLog,          \* every sample pushed to the history, in order
    storedStats,        \* every complete value m_hwStats has held
    pcR,                \* position of "rdr" inside an accessor
    rdStats,            \* the HardwareStats copy GetHardwareStats is building
    m_procMutex,        \* owner of m_procMutex
    m_processesCache,   \* std::vector<ProcessInfo> m_processesCache
    osProcs,            \* the processes the operating system is running
    lastListed,         \* what QueryProcesses returned in the latest Update()
    filter,             \* argument of the GetProcesses call in progress
    result,             \* local result of GetProcesses
    idx,                \* position of the for loop of GetProcesses in the cache
    killRet,            \* outcome of the latest TerminateProcess call
    m_weatherMutex,     \* owner of m_weatherMutex
    m_weather,          \* std::optional<WeatherInfo> m_weather
    m_weatherLoading,   \* std::atomic<bool>
    m_weatherThreadStop,\* std::atomic<bool>
    pcW,                \* position of "wrk" inside WeatherWorker
    fetched,            \* what the fetch in progress is about to store
    outcome,            \* how the latest fetch ended
    nRequests,          \* RequestWeatherRefresh calls made
    nAccepted,          \* RequestWeatherRefresh calls that set the flag
    nFetches,           \* FetchWeatherBlocking invocations
    nReturned,          \* FetchWeatherBlocking invocations that have returned
    rdWeather,          \* value returned by the latest GetWeather call
    rdLoading,          \* value returned by the latest IsWeatherLoading call
    seenAccepted,       \* requests accepted when IsWeatherLoading last returned false
    seenReturned        \* fetches returned when GetWeather took its copy

hwVars == <<m_hwMutex, m_hwStats, m_cpuHistory, m_lastTotalJiffies,
            m_lastIdleJiffies, procStat, statOk, cpu, stats, sampleLog,
            storedStats>>
rdVars == <<pcR, rdStats, filter, result, idx, rdWeather, rdLoading,
            seenAccepted, seenReturned>>
procVars == <<m_procMutex, m_processesCache, procs, lastListed>>
osVars == <<osProcs, killRet>>
weatherVars == <<m_weatherMutex, m_weather, m_weatherLoading, fetched, outcome,
                 nRequests, nAccepted, nFetches, nReturned>>
workerVars == <<pcW, m_weatherThreadStop>>

vars == <<phase, pcU, nUpdates, hwVars, rdVars, procVars, osVars,
          weatherVars, workerVars>>

\* ------------------------------------------------------------ data helpers

\* An empty std::optional<WeatherInfo>.
NoWeather == [has |-> FALSE, summary |-> <<>>, temperatureC |-> 0, windKph |-> 0]

DefaultStats == [cpuLoadPercent |-> 0, ramUsedGB |-> 0, ramTotalGB |-> 0]

ZeroStat == [user |-> 0, nice |-> 0, system |-> 0, idle |-> 0,
             iowait |-> 0, irq |-> 0, softirq |-> 0, steal |-> 0]

Wrap(n) == ((n % Modulus) + Modulus) % Modulus

\* The counters after the OS accounted d = [user, idle, iowait] more ticks.
Advance(s, d) ==
    [s EXCEPT !.user = Wrap(@ + d.user),
              !.idle = Wrap(@ + d.idle),
              !.iowait = Wrap(@ + d.iowait)]

\* A cumulative counter does not go below zero.
CanAdvance(s, d) == s.iowait + d.iowait >= 0

\* What one read of /proc/stat yields: the stream may fail to open, the first
\* token may not be "cpu", or the eight counters are read.
StatRead(ok, label, s) == [ok |-> ok, label |-> label, c |-> s]

\* As SampleCpuUsage, but forgetting the baseline when the counters cannot
\* be read.
SampleCpuUsageForgetsBaseline(r, lastTotal, lastIdle) ==
    IF ~r.ok \/ r.label # "cpu"
    THEN [usage |-> 0, lastTotal |-> 0, lastIdle |-> 0]
    ELSE LET idleAll == Wrap(r.c.idle + r.c.iowait)
             nonIdle == Wrap(r.c.user + r.c.nice + r.c.system + r.c.irq
                             + r.c.softirq + r.c.steal)
             total == Wrap(idleAll + nonIdle)
             totalDiff == Wrap(total - lastTotal)
             idleDiff == Wrap(idleAll - lastIdle)
         IN  [usage |-> IF totalDiff = 0 THEN 0
                        ELSE (100 * Wrap(totalDiff - idleDiff)) \div totalDiff,
              lastTotal |-> total,
              lastIdle |-> idleAll]

\* SampleCpuUsage(), Linux branch: the returned usage and the baseline left
\* behind, from one read r and the baseline (lastTotal, lastIdle).
SampleCpuUsage(r, lastTotal, lastIdle) ==
    IF ~r.ok \/ r.label # "cpu"
    THEN [usage |-> 0, lastTotal |-> lastTotal, lastIdle |-> lastIdle]
    ELSE LET idleAll == Wrap(r.c.idle + r.c.iowait)
             nonIdle == Wrap(r.c.user + r.c.nice + r.c.system + r.c.irq
                             + r.c.softirq + r.c.steal)
             total == Wrap(idleAll + nonIdle)
             totalDiff == Wrap(total - lastTotal)
             idleDiff == Wrap(idleAll - lastIdle)
         IN  [usage |-> IF totalDiff = 0 THEN 0
                        ELSE (100 * Wrap(totalDiff - idleDiff)) \div totalDiff,
              lastTotal |-> total,
              lastIdle |-> idleAll]

\* SampleRamUsage(stats), Linux branch: sysinfo() fills total and used, or
\* fails and leaves stats as it was.
SampleRamUsage(s, info) ==
    IF info.ok
    THEN [s EXCEPT !.ramTotalGB = info.totalram,
                   !.ramUsedGB = info.totalram - info.freeram]
    ELSE s

\* As EraseFull, but evicting only when the size is above MaxHistory.
EraseWhenOverFull(h) == IF Len(h) > MaxHistory THEN Tail(h) ELSE h

\* if (m_cpuHistory.size() >= MaxHistory) m_cpuHistory.erase(begin()): the
\* history after the statement.
EraseFull(h) == IF Len(h) >= MaxHistory THEN Tail(h) ELSE h

\* ----------------------------------------------------------------- strings

LowerOf ==
    [c \in {"A", "B", "C", "D", "E", "F", "G", "H", "I", "J", "K", "L", "M",
            "N", "O", "P", "Q", "R", "S", "T", "U", "V", "W", "X", "Y", "Z"} |->
        CASE c = "A" -> "a" [] c = "B" -> "b" [] c = "C" -> "c" [] c = "D" -> "d"
          [] c = "E" -> "e" [] c = "F" -> "f" [] c = "G" -> "g" [] c = "H" -> "h"
          [] c = "I" -> "i" [] c = "J" -> "j" [] c = "K" -> "k" [] c = "L" -> "l"
          [] c = "M" -> "m" [] c = "N" -> "n" [] c = "O" -> "o" [] c = "P" -> "p"
          [] c = "Q" -> "q" [] c = "R" -> "r" [] c = "S" -> "s" [] c = "T" -> "t"
          [] c = "U" -> "u" [] c = "V" -> "v" [] c = "W" -> "w" [] c = "X" -> "x"
          [] c = "Y" -> "y" [] c = "Z" -> "z"]

\* std::tolower on one character.
tolower(c) == IF c \in DOMAIN LowerOf THEN LowerOf[c] ELSE c

\* As toLower, but leaving the characters as they are.
toLowerIdentity(s) == s

\* toLower(std::string): std::transform with std::tolower.
toLower(s) == [i \in 1..Len(s) |-> tolower(s[i])]

npos == -1

\* std::string::find(needle) from position pos (0-based): the first position
\* where needle occurs, or npos.
RECURSIVE FindFrom(_, _, _)
FindFrom(hay, needle, pos) ==
    IF pos + Len(needle) > Len(hay) THEN npos
    ELSE IF SubSeq(hay, pos + 1, pos + Len(needle)) = needle THEN pos
    ELSE FindFrom(hay, needle, pos + 1)

find(hay, needle) == FindFrom(hay, needle, 0)

DigitChar == <<"0", "1", "2", "3", "4", "5", "6", "7", "8", "9">>

\* std::to_string(int): decimal digits, with a minus sign when negative.
RECURSIVE to_string(_)
to_string(n) ==
    IF n < 0 THEN <<"-">> \o to_string(-n)
    ELSE IF n < 10 THEN <<DigitChar[n + 1]>>
    ELSE to_string(n \div 10) \o <<DigitChar[(n % 10) + 1]>>

\* --------------------------------------------------------------- processes

\* The condition of the if in the loop of GetProcesses, for the record p and
\* the filter already lower-cased.
Matches(p, filterLower) ==
    \/ filterLower = <<>>
    \/ find(toLower(p.name), filterLower) # npos
    \/ find(to_string(p.pid), filterLower) # npos

\* One line "pid comm" of the output of ps becomes a ProcessInfo; an empty
\* name becomes "unknown".
ParsePsLine(line) ==
    [pid |-> line.pid,
     name |-> IF line.comm = <<>> THEN <<"u", "n", "k", "n", "o", "w", "n">>
              ELSE line.comm]

\* The lines of ps, in ascending pid order, for the running processes ps.
RECURSIVE PsOutput(_)
PsOutput(ps) ==
    IF ps = {} THEN <<>>
    ELSE LET first == CHOOSE p \in ps : \A q \in ps : p.pid <= q.pid
         IN  <<first>> \o PsOutput(ps \ {first})

\* QueryProcesses(), POSIX branch: popen may fail (empty list), otherwise one
\* ProcessInfo per line of ps.
QueryProcesses(popenOk, ps) ==
    IF ~popenOk THEN <<>>
    ELSE LET lines == PsOutput(ps)
         IN  [i \in 1..Len(lines) |-> ParsePsLine(lines[i])]

\* kill(pid, SIGTERM): 0, or -1 with errno.
Kill(pid, ps) ==
    IF \E p \in ps : p.pid = pid
    THEN LET p == CHOOSE q \in ps : q.pid = pid
         IN  IF p.owned THEN [ret |-> 0, errno |-> "none"]
             ELSE [ret |-> -1, errno |-> "EPERM"]
    ELSE [ret |-> -1, errno |-> "ESRCH"]

strerror(errno) ==
    CASE errno = "EPERM" -> "Operation not permitted"
      [] errno = "ESRCH" -> "No such process"
      [] OTHER -> "Success"

\* TerminateProcess(pid, errorMessage), POSIX branch: the return value and
\* the caller's errorMessage afterwards.
TerminateProcess(pid, errorMessage, ps) ==
    LET k == Kill(pid, ps)
    IN  IF k.ret # 0
        THEN [ok |-> FALSE,
              errorMessage |-> "kill(SIGTERM) failed: " \o strerror(k.errno)]
        ELSE [ok |-> TRUE, errorMessage |-> errorMessage]


\* ----------------------------------------------------------------- weather

\* cw.value(key, default) of nlohmann::json on the current_weather object:
\* the default when the key is absent, a type_error when its value is no
\* number, its value otherwise.
JsonThrows(body, key) == body[key].kind = "text"
JsonValue(body, key, default) ==
    IF body[key].kind = "absent" THEN default ELSE body[key].num

\* The try block of FetchWeatherBlocking on a response body: how it ends and
\* the std::optional<WeatherInfo> that m_weather is given.
ParseWeather(body) ==
    IF ~body.wellFormed THEN [outcome |-> "malformed", value |-> NoWeather]
    ELSE IF ~body.hasCW THEN [outcome |-> "missing", value |-> NoWeather]
    ELSE IF ~body.cwIsObject THEN [outcome |-> "type_error", value |-> NoWeather]
    ELSE IF \/ JsonThrows(body, "temperature")
            \/ JsonThrows(body, "windspeed")
            \/ JsonThrows(body, "weathercode")
         THEN [outcome |-> "type_error", value |-> NoWeather]
    ELSE [outcome |-> "ok",
          value |-> [has |-> TRUE,
                     summary |-> <<"C", "o", "d", "e", " ">>
                                 \o to_string(JsonValue(body, "weathercode", 0)),
                     temperatureC |-> JsonValue(body, "temperature", 0),
                     windKph |-> JsonValue(body, "windspeed", 0)]]

\* FetchWeatherBlocking after curl_easy_perform returned res with the body.
AfterPerform(res, body) ==
    IF res # "CURLE_OK" THEN [outcome |-> "transfer_error", value |-> NoWeather]
    ELSE ParseWeather(body)

\* As Stored, but keeping the previous reading when the fetch failed.
StoredKeepStale(old, new) == IF new.has THEN new ELSE old

\* What the locked assignment at the end of FetchWeatherBlocking leaves in
\* m_weather: the fetched reading, or nothing after reset().
Stored(old, new) == new

Failures == {"init_failed", "transfer_error", "malformed", "missing", "type_error"}

\* -------------------------------------------------------------------- Init

\* The members as their default initialisers leave them, before the body of
\* the constructor runs.
Init ==
    /\ phase = "new"
    /\ m_hwMutex = "free"
    /\ m_hwStats = DefaultStats
    /\ m_cpuHistory = <<>>
    /\ m_lastTotalJiffies = 0
    /\ m_lastIdleJiffies = 0
    /\ procStat = ZeroStat
    /\ statOk = TRUE
    /\ pcU = "idle"
    /\ cpu = 0
    /\ stats = DefaultStats
    /\ procs = <<>>
    /\ nUpdates = 0
    /\ sampleLog = <<>>
    /\ storedStats = {DefaultStats}
    /\ pcR = "idle"
    /\ rdStats = DefaultStats
    /\ m_procMutex = "free"
    /\ m_processesCache = <<>>
    /\ osProcs = {}
    /\ lastListed = <<>>
    /\ filter = <<>>
    /\ result = <<>>
    /\ idx = 1
    /\ killRet = [called |-> FALSE, pid |-> 0, ok |-> FALSE, errorMessage |-> ""]
    /\ m_weatherMutex = "free"
    /\ m_weather = NoWeather
    /\ m_weatherLoading = FALSE
    /\ m_weatherThreadStop = FALSE
    /\ pcW = "unstarted"
    /\ fetched = NoWeather
    /\ outcome = "none"
    /\ nRequests = 0
    /\ nAccepted = 0
    /\ nFetches = 0
    /\ nReturned = 0
    /\ rdWeather = NoWeather
    /\ rdLoading = FALSE
    /\ seenAccepted = 0
    /\ seenReturned = 0

\* ------------------------------------------------ constructor, destructor

\* SystemMonitor(): primes the CPU baseline with one SampleCpuUsage call whose
\* result is dropped, then starts the weather thread.
Constructor(Ticks, Reads) ==
    /\ phase = "new"
    /\ \E d \in {t \in Ticks : CanAdvance(procStat, t)}, rd \in Reads :
         LET st == Advance(procStat, d)
             r == SampleCpuUsage(StatRead(rd.ok, rd.label, st),
                                 m_lastTotalJiffies, m_lastIdleJiffies)
         IN  /\ procStat' = st
             /\ statOk' = (rd.ok /\ rd.label = "cpu")
             /\ cpu' = r.usage
             /\ m_lastTotalJiffies' = r.lastTotal
             /\ m_lastIdleJiffies' = r.lastIdle
    /\ pcW' = "loop"
    /\ phase' = "live"
    /\ UNCHANGED <<pcU, nUpdates, m_hwMutex, m_hwStats, m_cpuHistory,
                   stats, sampleLog, storedStats, rdVars, procVars, osVars,
                   weatherVars, m_weatherThreadStop>>

\* ~SystemMonitor(), first statement: m_weatherThreadStop.store(true).  The
\* owner destroys the object when no other call on it is in progress.
DestructorStop ==
    /\ phase = "live"
    /\ pcU = "idle"
    /\ pcR = "idle"
    /\ m_weatherThreadStop' = TRUE
    /\ phase' = "joining"
    /\ UNCHANGED <<pcU, nUpdates, hwVars, rdVars, procVars, osVars,
                   weatherVars, pcW>>

\* As DestructorJoin, but returning without waiting for the thread.
DestructorJoinNoWait ==
    /\ phase = "joining"
    /\ phase' = "destroyed"
    /\ UNCHANGED <<pcU, nUpdates, hwVars, rdVars, procVars, osVars,
                   weatherVars, workerVars>>

\* ~SystemMonitor(), m_weatherThread.join(): returns once the thread ended.
DestructorJoin ==
    /\ phase = "joining"
    /\ pcW = "exited"
    /\ phase' = "destroyed"
    /\ UNCHANGED <<pcU, nUpdates, hwVars, rdVars, procVars, osVars,
                   weatherVars, workerVars>>


\* ---------------------------------------------------------------- Update()

\* Update() is called and UpdateHardware runs cpu = SampleCpuUsage(): the OS
\* has accounted d more ticks since the previous read.
UpdateSampleCpu(Ticks, Reads) ==
    /\ phase = "live"
    /\ pcU = "idle"
    /\ nUpdates < MaxUpdates
    /\ \E d \in {t \in Ticks : CanAdvance(procStat, t)}, rd \in Reads :
         LET st == Advance(procStat, d)
             r == SampleCpuUsage(StatRead(rd.ok, rd.label, st),
                                 m_lastTotalJiffies, m_lastIdleJiffies)
         IN  /\ procStat' = st
             /\ statOk' = (rd.ok /\ rd.label = "cpu")
             /\ cpu' = r.usage
             /\ m_lastTotalJiffies' = r.lastTotal
             /\ m_lastIdleJiffies' = r.lastIdle
    /\ nUpdates' = nUpdates + 1
    /\ pcU' = "ram"
    /\ UNCHANGED <<phase, m_hwMutex, m_hwStats, m_cpuHistory, stats,
                   sampleLog, storedStats, rdVars, procVars, osVars,
                   weatherVars, workerVars>>

\* HardwareStats stats; stats.cpuLoadPercent = cpu; SampleRamUsage(stats);
UpdateSampleRam(Infos) ==
    /\ pcU = "ram"
    /\ \E info \in Infos :
         stats' = SampleRamUsage([DefaultStats EXCEPT !.cpuLoadPercent = cpu], info)
    /\ pcU' = "hw_lock"
    /\ UNCHANGED <<phase, nUpdates, m_hwMutex, m_hwStats, m_cpuHistory,
                   m_lastTotalJiffies, m_lastIdleJiffies, procStat, statOk,
                   cpu, sampleLog, storedStats, rdVars, procVars, osVars,
                   weatherVars, workerVars>>

\* std::lock_guard<std::mutex> lock(m_hwMutex);
UpdateLockHw ==
    /\ pcU = "hw_lock"
    /\ m_hwMutex = "free"
    /\ m_hwMutex' = "drv"
    /\ pcU' = "store_cpu"
    /\ UNCHANGED <<phase, nUpdates, m_hwStats, m_cpuHistory,
                   m_lastTotalJiffies, m_lastIdleJiffies, procStat, statOk,
                   cpu, stats, sampleLog, storedStats, rdVars, procVars,
                   osVars, weatherVars, workerVars>>

\* m_hwStats = stats; one field at a time.
UpdateStoreField(at, field, next) ==
    /\ pcU = at
    /\ m_hwStats' = [m_hwStats EXCEPT ![field] = stats[field]]
    /\ storedStats' = IF next = "erase" THEN storedStats \cup {m_hwStats'}
                      ELSE storedStats
    /\ pcU' = next
    /\ UNCHANGED <<phase, nUpdates, m_hwMutex, m_cpuHistory,
                   m_lastTotalJiffies, m_lastIdleJiffies, procStat, statOk,
                   cpu, stats, sampleLog, rdVars, procVars, osVars,
                   weatherVars, workerVars>>

UpdateStoreCpu == UpdateStoreField("store_cpu", "cpuLoadPercent", "store_used")
UpdateStoreUsed == UpdateStoreField("store_used", "ramUsedGB", "store_total")
UpdateStoreTotal == UpdateStoreField("store_total", "ramTotalGB", "erase")

\* As UpdateErase, but with the locked block ending after the snapshot is
\* stored, so that the history is updated without the lock.
UpdateEraseUnlocked ==
    /\ pcU = "erase"
    /\ m_hwMutex' = "free"
    /\ m_cpuHistory' = EraseFull(m_cpuHistory)
    /\ pcU' = "push"
    /\ UNCHANGED <<phase, nUpdates, m_hwStats, m_lastTotalJiffies,
                   m_lastIdleJiffies, procStat, statOk, cpu, stats, sampleLog,
                   storedStats, rdVars, procVars, osVars, weatherVars,
                   workerVars>>

\* if (m_cpuHistory.size() >= MaxHistory) m_cpuHistory.erase(begin());
UpdateErase ==
    /\ pcU = "erase"
    /\ m_cpuHistory' = EraseFull(m_cpuHistory)
    /\ pcU' = "push"
    /\ UNCHANGED <<phase, nUpdates, m_hwMutex, m_hwStats,
                   m_lastTotalJiffies, m_lastIdleJiffies, procStat, statOk,
                   cpu, stats, sampleLog, storedStats, rdVars, procVars,
                   osVars, weatherVars, workerVars>>

\* m_cpuHistory.push_back(cpu);
UpdatePush ==
    /\ pcU = "push"
    /\ m_cpuHistory' = Append(m_cpuHistory, cpu)
    /\ sampleLog' = Append(sampleLog, cpu)
    /\ pcU' = "hw_unlock"
    /\ UNCHANGED <<phase, nUpdates, m_hwMutex, m_hwStats,
                   m_lastTotalJiffies, m_lastIdleJiffies, procStat, statOk,
                   cpu, stats, storedStats, rdVars, procVars, osVars,
                   weatherVars, workerVars>>

\* As UpdateUnlockHw, but going on to the process list with m_hwMutex still
\* held.
UpdateUnlockHwKeepsLock ==
    /\ pcU = "hw_unlock"
    /\ stats' = DefaultStats
    /\ pcU' = "proc_lock"
    /\ UNCHANGED <<phase, nUpdates, m_hwMutex, m_hwStats, m_cpuHistory,
                   m_lastTotalJiffies, m_lastIdleJiffies, procStat, statOk, cpu,
                   sampleLog, storedStats, rdVars, procVars, osVars,
                   weatherVars, workerVars>>

\* End of the locked block of UpdateHardware; UpdateHardware returns.
UpdateUnlockHw ==
    /\ pcU = "hw_unlock"
    /\ m_hwMutex' = IF m_hwMutex = "drv" THEN "free" ELSE m_hwMutex
    /\ stats' = DefaultStats
    /\ pcU' = "proc_lock"
    /\ UNCHANGED <<phase, nUpdates, m_hwStats, m_cpuHistory,
                   m_lastTotalJiffies, m_lastIdleJiffies, procStat, statOk,
                   cpu, sampleLog, storedStats, rdVars, procVars, osVars,
                   weatherVars, workerVars>>

\* std::lock_guard<std::mutex> lock(m_procMutex);
UpdateLockProc ==
    /\ pcU = "proc_lock"
    /\ m_procMutex = "free"
    /\ m_procMutex' = "drv"
    /\ pcU' = "query"
    /\ UNCHANGED <<phase, nUpdates, hwVars, rdVars, m_processesCache,
                   procs, lastListed, osVars, weatherVars, workerVars>>

\* The right-hand side QueryProcesses() is evaluated, with the lock held.
UpdateQuery(PopenOks) ==
    /\ pcU = "query"
    /\ \E ok \in PopenOks : procs' = QueryProcesses(ok, osProcs)
    /\ lastListed' = procs'
    /\ pcU' = "assign"
    /\ UNCHANGED <<phase, nUpdates, hwVars, rdVars, m_procMutex,
                   m_processesCache, osVars, weatherVars, workerVars>>

\* m_processesCache = (the temporary): the whole vector is replaced.
UpdateAssign ==
    /\ pcU = "assign"
    /\ m_processesCache' = procs
    /\ procs' = <<>>
    /\ pcU' = "proc_unlock"
    /\ UNCHANGED <<phase, nUpdates, hwVars, rdVars, m_procMutex,
                   lastListed, osVars, weatherVars, workerVars>>

\* End of the locked block; Update() returns.
UpdateUnlockProc ==
    /\ pcU = "proc_unlock"
    /\ m_procMutex' = IF m_procMutex = "drv" THEN "free" ELSE m_procMutex
    /\ pcU' = "idle"
    /\ UNCHANGED <<phase, nUpdates, hwVars, rdVars, m_processesCache,
                   procs, lastListed, osVars, weatherVars, workerVars>>


\* ------------------------------------------------------ GetHardwareStats()

\* As GetHardwareStatsLock, but without taking m_hwMutex.
GetHardwareStatsNoLock ==
    /\ phase = "live"
    /\ pcR = "idle"
    /\ rdStats' = DefaultStats
    /\ pcR' = "copy_cpu"
    /\ UNCHANGED <<phase, pcU, nUpdates, hwVars, filter, result,
                   rdWeather, procVars, osVars, weatherVars, workerVars, idx,
                   rdLoading, seenAccepted, seenReturned>>

\* std::lock_guard<std::mutex> lock(m_hwMutex);
GetHardwareStatsLock ==
    /\ phase = "live"
    /\ pcR = "idle"
    /\ m_hwMutex = "free"
    /\ m_hwMutex' = "rdr"
    /\ rdStats' = DefaultStats
    /\ pcR' = "copy_cpu"
    /\ UNCHANGED <<phase, pcU, nUpdates, m_hwStats, m_cpuHistory,
                   m_lastTotalJiffies, m_lastIdleJiffies, procStat, statOk,
                   cpu, stats, sampleLog, storedStats, filter, result,
                   rdWeather, procVars, osVars, weatherVars, workerVars, idx,
                   rdLoading, seenAccepted, seenReturned>>

\* return m_hwStats; the copy is made one field at a time.
GetHardwareStatsCopy(at, field, next) ==
    /\ pcR = at
    /\ rdStats' = [rdStats EXCEPT ![field] = m_hwStats[field]]
    /\ pcR' = next
    /\ UNCHANGED <<phase, pcU, nUpdates, hwVars, filter, result,
                   rdWeather, procVars, osVars, weatherVars, workerVars, idx,
                   rdLoading, seenAccepted, seenReturned>>

GetHardwareStatsCopyCpu ==
    GetHardwareStatsCopy("copy_cpu", "cpuLoadPercent", "copy_used")
GetHardwareStatsCopyUsed ==
    GetHardwareStatsCopy("copy_used", "ramUsedGB", "copy_total")
GetHardwareStatsCopyTotal ==
    GetHardwareStatsCopy("copy_total", "ramTotalGB", "stats_unlock")

\* The lock_guard is destroyed; the caller has the copy.
GetHardwareStatsUnlock ==
    /\ pcR = "stats_unlock"
    /\ m_hwMutex' = IF m_hwMutex = "rdr" THEN "free" ELSE m_hwMutex
    /\ pcR' = "stats_ret"
    /\ UNCHANGED <<phase, pcU, nUpdates, m_hwStats, m_cpuHistory,
                   m_lastTotalJiffies, m_lastIdleJiffies, procStat, statOk,
                   cpu, stats, sampleLog, storedStats, rdStats, filter, result,
                   rdWeather, procVars, osVars, weatherVars, workerVars, idx,
                   rdLoading, seenAccepted, seenReturned>>

\* The caller is done with the copy.
GetHardwareStatsDone ==
    /\ pcR = "stats_ret"
    /\ rdStats' = DefaultStats
    /\ pcR' = "idle"
    /\ UNCHANGED <<phase, pcU, nUpdates, hwVars, filter, result,
                   rdWeather, procVars, osVars, weatherVars, workerVars, idx,
                   rdLoading, seenAccepted, seenReturned>>

\* --------------------------------------------------------- GetCpuHistory()

\* GetCpuHistory() returns a reference to m_cpuHistory; no lock is taken.
GetCpuHistory ==
    /\ phase = "live"
    /\ pcR = "idle"
    /\ pcR' = "hist_ref"
    /\ UNCHANGED <<phase, pcU, nUpdates, hwVars, rdStats, filter,
                   result, rdWeather, procVars, osVars, weatherVars,
                   workerVars, idx, rdLoading, seenAccepted, seenReturned>>

\* The caller starts reading the vector through the reference (empty(),
\* data(), size(), the elements).
ReadHistoryBegin ==
    /\ pcR = "hist_ref"
    /\ pcR' = "hist_read"
    /\ UNCHANGED <<phase, pcU, nUpdates, hwVars, rdStats, filter,
                   result, rdWeather, procVars, osVars, weatherVars,
                   workerVars, idx, rdLoading, seenAccepted, seenReturned>>

\* The caller has finished reading.
ReadHistoryEnd ==
    /\ pcR = "hist_read"
    /\ pcR' = "idle"
    /\ UNCHANGED <<phase, pcU, nUpdates, hwVars, rdStats, filter,
                   result, rdWeather, procVars, osVars, weatherVars,
                   workerVars, idx, rdLoading, seenAccepted, seenReturned>>

\* ---------------------------------------------------------- GetProcesses()

\* GetProcesses(f) is called: filterLower = toLower(filter) is computed when
\* the loop uses it.
GetProcessesCall(Filters) ==
    /\ phase = "live"
    /\ pcR = "idle"
    /\ \E f \in Filters : filter' = f
    /\ result' = <<>>
    /\ idx' = 1
    /\ pcR' = "procs_lock"
    /\ UNCHANGED <<phase, pcU, nUpdates, hwVars, rdStats, rdWeather,
                   procVars, osVars, weatherVars, workerVars, rdLoading,
                   seenAccepted, seenReturned>>

\* As GetProcessesLock, but going into the loop without m_procMutex.
GetProcessesNoLock ==
    /\ pcR = "procs_lock"
    /\ pcR' = "procs_loop"
    /\ UNCHANGED <<phase, pcU, nUpdates, hwVars, rdStats, filter,
                   result, rdWeather, procVars, osVars, weatherVars,
                   workerVars, idx, rdLoading, seenAccepted, seenReturned>>

\* std::lock_guard<std::mutex> lock(m_procMutex);
GetProcessesLock ==
    /\ pcR = "procs_lock"
    /\ m_procMutex = "free"
    /\ m_procMutex' = "rdr"
    /\ pcR' = "procs_loop"
    /\ UNCHANGED <<phase, pcU, nUpdates, hwVars, rdStats, filter,
                   result, rdWeather, m_processesCache, procs, lastListed,
                   osVars, weatherVars, workerVars, idx, rdLoading,
                   seenAccepted, seenReturned>>

\* One pass of the for loop over m_processesCache, with the lock held: the
\* record at the loop position is kept or skipped, or the loop ends.
GetProcessesLoop ==
    /\ pcR = "procs_loop"
    /\ IF idx <= Len(m_processesCache)
       THEN /\ result' = IF Matches(m_processesCache[idx], toLower(filter))
                         THEN Append(result, m_processesCache[idx])
                         ELSE result
            /\ idx' = idx + 1
            /\ pcR' = pcR
       ELSE /\ pcR' = "procs_unlock"
            /\ UNCHANGED <<result, idx>>
    /\ UNCHANGED <<phase, pcU, nUpdates, hwVars, rdStats, filter,
                   rdWeather, procVars, osVars, weatherVars, workerVars,
                   rdLoading, seenAccepted, seenReturned>>

\* return result; the lock_guard is destroyed.
GetProcessesUnlock ==
    /\ pcR = "procs_unlock"
    /\ m_procMutex' = IF m_procMutex = "rdr" THEN "free" ELSE m_procMutex
    /\ pcR' = "procs_ret"
    /\ UNCHANGED <<phase, pcU, nUpdates, hwVars, rdStats, filter,
                   result, rdWeather, m_processesCache, procs, lastListed,
                   osVars, weatherVars, workerVars, idx, rdLoading,
                   seenAccepted, seenReturned>>

\* The caller is done with the returned list.
GetProcessesDone ==
    /\ pcR = "procs_ret"
    /\ filter' = <<>>
    /\ result' = <<>>
    /\ idx' = 1
    /\ pcR' = "idle"
    /\ UNCHANGED <<phase, pcU, nUpdates, hwVars, rdStats, rdWeather,
                   procVars, osVars, weatherVars, workerVars, rdLoading,
                   seenAccepted, seenReturned>>

\* ------------------------------------------------------ TerminateProcess()

\* As CacheAfterTerminate, but dropping the terminated pid from the cache.
CacheWithoutPid(cache, pid) ==
    SelectSeq(cache, LAMBDA p : p.pid # pid)

\* The cache after TerminateProcess(pid, err): the function touches no
\* member of the object, it only talks to the operating system.
CacheAfterTerminate(cache, pid) == cache

\* TerminateProcess(pid, err) with a fresh empty err, as the UI calls it.  A
\* process that gets SIGTERM exits.
Terminate(Pids) ==
    /\ phase = "live"
    /\ \E pid \in Pids :
         LET r == TerminateProcess(pid, "", osProcs)
         IN  /\ killRet' = [called |-> TRUE, pid |-> pid, ok |-> r.ok,
                            errorMessage |-> r.errorMessage]
             /\ osProcs' = IF r.ok THEN {p \in osProcs : p.pid # pid} ELSE osProcs
             /\ m_processesCache' = CacheAfterTerminate(m_processesCache, pid)
    /\ UNCHANGED <<phase, pcU, nUpdates, hwVars, rdVars, m_procMutex,
                   procs, lastListed, weatherVars, workerVars>>

\* The operating system starts a process.
Spawn(Universe) ==
    /\ \E p \in Universe \ osProcs : osProcs' = osProcs \cup {p}
    /\ UNCHANGED <<phase, pcU, nUpdates, hwVars, rdVars, procVars,
                   killRet, weatherVars, workerVars>>

\* ------------------------------------------------- RequestWeatherRefresh()

\* As RequestWeatherRefresh, but dropping the current reading when the
\* refresh is requested.
RequestWeatherRefreshClearsReading ==
    /\ phase = "live"
    /\ nRequests < MaxRequests
    /\ nRequests' = nRequests + 1
    /\ m_weatherLoading' = TRUE
    /\ nAccepted' = IF m_weatherLoading THEN nAccepted ELSE nAccepted + 1
    /\ m_weather' = NoWeather
    /\ UNCHANGED <<phase, pcU, nUpdates, hwVars, rdVars, procVars, osVars,
                   m_weatherMutex, fetched, outcome, nFetches, nReturned,
                   workerVars>>

\* m_weatherLoading.exchange(true): the flag is set, and the call learns
\* whether it was clear before.
RequestWeatherRefresh ==
    /\ phase = "live"
    /\ nRequests < MaxRequests
    /\ nRequests' = nRequests + 1
    /\ m_weatherLoading' = TRUE
    /\ nAccepted' = IF m_weatherLoading THEN nAccepted ELSE nAccepted + 1
    /\ UNCHANGED <<phase, pcU, nUpdates, hwVars, rdVars, procVars,
                   osVars, m_weatherMutex, m_weather, fetched, outcome,
                   nFetches, workerVars, nReturned>>

\* ----------------------------------------------------------- WeatherWorker

\* while (!m_weatherThreadStop.load())
WorkerLoop ==
    /\ pcW = "loop"
    /\ pcW' = IF m_weatherThreadStop THEN "exited" ELSE "poll"
    /\ UNCHANGED <<phase, pcU, nUpdates, hwVars, rdVars, procVars,
                   osVars, weatherVars, m_weatherThreadStop>>

\* As WorkerPoll, but handing the fetch to a thread of its own and going on
\* to the sleep.
WorkerPollDetachesFetch ==
    /\ pcW = "poll"
    /\ pcW' = "sleep"
    /\ nFetches' = IF m_weatherLoading THEN nFetches + 1 ELSE nFetches
    /\ UNCHANGED <<phase, pcU, nUpdates, hwVars, rdVars, procVars, osVars,
                   m_weatherMutex, m_weather, m_weatherLoading, fetched, outcome,
                   nRequests, nAccepted, nReturned, m_weatherThreadStop>>

\* As WorkerPoll, but clearing the flag before the fetch.
WorkerPollClearsEarly ==
    /\ pcW = "poll"
    /\ pcW' = IF m_weatherLoading THEN "curl_init" ELSE "sleep"
    /\ nFetches' = IF m_weatherLoading THEN nFetches + 1 ELSE nFetches
    /\ m_weatherLoading' = FALSE
    /\ UNCHANGED <<phase, pcU, nUpdates, hwVars, rdVars, procVars,
                   osVars, m_weatherMutex, m_weather, fetched, outcome,
                   nRequests, nAccepted, m_weatherThreadStop, nReturned>>

\* if (m_weatherLoading.load()) FetchWeatherBlocking(); is entered, or the
\* body of the if is skipped.
WorkerPoll ==
    /\ pcW = "poll"
    /\ pcW' = IF m_weatherLoading THEN "curl_init" ELSE "sleep"
    /\ nFetches' = IF m_weatherLoading THEN nFetches + 1 ELSE nFetches
    /\ UNCHANGED <<phase, pcU, nUpdates, hwVars, rdVars, procVars,
                   osVars, m_weatherMutex, m_weather, m_weatherLoading,
                   fetched, outcome, nRequests, nAccepted, m_weatherThreadStop,
                   nReturned>>

\* As FetchCurlInit, but taking m_weatherMutex before the transfer instead
\* of after it.
FetchCurlInitLocksFirst(InitOks) ==
    /\ pcW = "curl_init"
    /\ m_weatherMutex = "free"
    /\ \E ok \in InitOks :
         IF ok
         THEN /\ pcW' = "perform"
              /\ m_weatherMutex' = "wrk"
              /\ UNCHANGED <<fetched, outcome>>
         ELSE /\ pcW' = "lock"
              /\ m_weatherMutex' = m_weatherMutex
              /\ fetched' = NoWeather
              /\ outcome' = "init_failed"
    /\ UNCHANGED <<phase, pcU, nUpdates, hwVars, rdVars, procVars, osVars,
                   m_weather, m_weatherLoading, nRequests, nAccepted, nFetches,
                   nReturned, m_weatherThreadStop>>

\* CURL* curl = curl_easy_init(); if (!curl) the reading is to be reset.
FetchCurlInit(InitOks) ==
    /\ pcW = "curl_init"
    /\ \E ok \in InitOks :
         IF ok
         THEN /\ pcW' = "perform"
              /\ UNCHANGED <<fetched, outcome>>
         ELSE /\ pcW' = "lock"
              /\ fetched' = NoWeather
              /\ outcome' = "init_failed"
    /\ UNCHANGED <<phase, pcU, nUpdates, hwVars, rdVars, procVars,
                   osVars, m_weatherMutex, m_weather, m_weatherLoading,
                   nRequests, nAccepted, nFetches, m_weatherThreadStop,
                   nReturned>>

\* As FetchPerform, but clearing the loading flag as soon as the transfer
\* and the parse are done, before the result is written.
FetchPerformClearsFlag(Codes, Bodies) ==
    /\ pcW = "perform"
    /\ \E res \in Codes, body \in Bodies :
         LET r == AfterPerform(res, body)
         IN  /\ fetched' = r.value
             /\ outcome' = r.outcome
    /\ m_weatherLoading' = FALSE
    /\ pcW' = "lock"
    /\ UNCHANGED <<phase, pcU, nUpdates, hwVars, rdVars, procVars, osVars,
                   m_weatherMutex, m_weather, nRequests, nAccepted, nFetches,
                   nReturned, m_weatherThreadStop>>

\* curl_easy_perform (the blocking network call), then the checks and the
\* parse, up to the point where m_weatherMutex is wanted.
FetchPerform(Codes, Bodies) ==
    /\ pcW = "perform"
    /\ \E res \in Codes, body \in Bodies :
         LET r == AfterPerform(res, body)
         IN  /\ fetched' = r.value
             /\ outcome' = r.outcome
    /\ pcW' = "lock"
    /\ UNCHANGED <<phase, pcU, nUpdates, hwVars, rdVars, procVars,
                   osVars, m_weatherMutex, m_weather, m_weatherLoading,
                   nRequests, nAccepted, nFetches, m_weatherThreadStop,
                   nReturned>>

\* std::lock_guard<std::mutex> lock(m_weatherMutex);
FetchLock ==
    /\ pcW = "lock"
    /\ m_weatherMutex = "free"
    /\ m_weatherMutex' = "wrk"
    /\ pcW' = "store"
    /\ UNCHANGED <<phase, pcU, nUpdates, hwVars, rdVars, procVars,
                   osVars, m_weather, m_weatherLoading, fetched, outcome,
                   nRequests, nAccepted, nFetches, m_weatherThreadStop,
                   nReturned>>

\* m_weather = info; or m_weather.reset();
FetchStore ==
    /\ pcW = "store"
    /\ m_weather' = Stored(m_weather, fetched)
    /\ pcW' = "unlock"
    /\ UNCHANGED <<phase, pcU, nUpdates, hwVars, rdVars, procVars,
                   osVars, m_weatherMutex, m_weatherLoading, fetched, outcome,
                   nRequests, nAccepted, nFetches, m_weatherThreadStop,
                   nReturned>>

\* The lock_guard is destroyed and FetchWeatherBlocking returns.
FetchUnlock ==
    /\ pcW = "unlock"
    /\ m_weatherMutex' = IF m_weatherMutex = "wrk" THEN "free" ELSE m_weatherMutex
    /\ fetched' = NoWeather
    /\ nReturned' = nReturned + 1
    /\ pcW' = "clear"
    /\ UNCHANGED <<phase, pcU, nUpdates, hwVars, rdVars, procVars,
                   osVars, m_weather, m_weatherLoading, outcome, nRequests,
                   nAccepted, nFetches, m_weatherThreadStop>>

\* As WorkerClear, but leaving the flag set after a failed fetch, so that
\* the next pass of the loop fetches again.
WorkerClearRetriesFailure ==
    /\ pcW = "clear"
    /\ m_weatherLoading' = (outcome \in Failures)
    /\ pcW' = "sleep"
    /\ UNCHANGED <<phase, pcU, nUpdates, hwVars, rdVars, procVars, osVars,
                   m_weatherMutex, m_weather, fetched, outcome,
                   nRequests, nAccepted, nFetches, nReturned,
                   m_weatherThreadStop>>

\* As WorkerClear, but leaving the flag set.
WorkerClearForgotten ==
    /\ pcW = "clear"
    /\ pcW' = "sleep"
    /\ UNCHANGED <<phase, pcU, nUpdates, hwVars, rdVars, procVars,
                   osVars, weatherVars, m_weatherThreadStop>>

\* m_weatherLoading.store(false);
WorkerClear ==
    /\ pcW = "clear"
    /\ m_weatherLoading' = FALSE
    /\ pcW' = "sleep"
    /\ UNCHANGED <<phase, pcU, nUpdates, hwVars, rdVars, procVars,
                   osVars, m_weatherMutex, m_weather, fetched, outcome,
                   nRequests, nAccepted, nFetches, m_weatherThreadStop,
                   nReturned>>

\* As WorkerSleep, but leaving the loop after one pass.
WorkerSleepReturns ==
    /\ pcW = "sleep"
    /\ pcW' = "exited"
    /\ UNCHANGED <<phase, pcU, nUpdates, hwVars, rdVars, procVars, osVars,
                   weatherVars, m_weatherThreadStop>>

\* std::this_thread::sleep_for(200ms); back to the loop condition.
WorkerSleep ==
    /\ pcW = "sleep"
    /\ pcW' = "loop"
    /\ UNCHANGED <<phase, pcU, nUpdates, hwVars, rdVars, procVars,
                   osVars, weatherVars, m_weatherThreadStop>>

\* -------------------------------------------------------- IsWeatherLoading()

\* IsWeatherLoading(): m_weatherLoading.load().
IsWeatherLoading ==
    /\ phase = "live"
    /\ pcR = "idle"
    /\ rdLoading' = m_weatherLoading
    /\ seenAccepted' = IF m_weatherLoading THEN 0 ELSE nAccepted
    /\ pcR' = "loading_ret"
    /\ UNCHANGED <<phase, pcU, nUpdates, hwVars, rdStats, filter, result,
                   idx, rdWeather, seenReturned, procVars, osVars, weatherVars,
                   workerVars>>

\* The caller has used the returned flag and goes on without reading the
\* weather (the UI shows "Loading..." when the flag was set).
IsWeatherLoadingDone ==
    /\ pcR = "loading_ret"
    /\ rdLoading' = FALSE
    /\ seenAccepted' = 0
    /\ pcR' = "idle"
    /\ UNCHANGED <<phase, pcU, nUpdates, hwVars, rdStats, filter, result,
                   idx, rdWeather, seenReturned, procVars, osVars, weatherVars,
                   workerVars>>

\* -------------------------------------------------------------- GetWeather()

\* GetWeather() is called, on its own or after IsWeatherLoading() returned
\* false as in the UI: std::lock_guard<std::mutex> lock(m_weatherMutex);
GetWeatherLock ==
    /\ phase = "live"
    /\ pcR = "idle" \/ (pcR = "loading_ret" /\ ~rdLoading)
    /\ m_weatherMutex = "free"
    /\ m_weatherMutex' = "rdr"
    /\ pcR' = "weather_copy"
    /\ UNCHANGED <<phase, pcU, nUpdates, hwVars, rdStats, filter,
                   result, rdWeather, procVars, osVars, m_weather,
                   m_weatherLoading, fetched, outcome, nRequests, nAccepted,
                   nFetches, workerVars, idx, rdLoading, seenAccepted,
                   seenReturned, nReturned>>

\* return m_weather;
GetWeatherCopy ==
    /\ pcR = "weather_copy"
    /\ rdWeather' = m_weather
    /\ seenReturned' = nReturned
    /\ pcR' = "weather_unlock"
    /\ UNCHANGED <<phase, pcU, nUpdates, hwVars, rdStats, filter,
                   result, procVars, osVars, weatherVars, workerVars, idx,
                   rdLoading, seenAccepted>>

\* The lock_guard is destroyed; the caller has the copy.
GetWeatherUnlock ==
    /\ pcR = "weather_unlock"
    /\ m_weatherMutex' = IF m_weatherMutex = "rdr" THEN "free" ELSE m_weatherMutex
    /\ pcR' = "weather_ret"
    /\ UNCHANGED <<phase, pcU, nUpdates, hwVars, rdStats, filter,
                   result, rdWeather, procVars, osVars, m_weather,
                   m_weatherLoading, fetched, outcome, nRequests, nAccepted,
                   nFetches, workerVars, idx, rdLoading, seenAccepted,
                   seenReturned, nReturned>>

\* The caller is done with the copy.
GetWeatherDone ==
    /\ pcR = "weather_ret"
    /\ rdWeather' = NoWeather
    /\ rdLoading' = FALSE
    /\ seenAccepted' = 0
    /\ seenReturned' = 0
    /\ pcR' = "idle"
    /\ UNCHANGED <<phase, pcU, nUpdates, hwVars, rdStats, filter,
                   result, procVars, osVars, weatherVars, workerVars, idx>>

\* ------------------------------------------------------------ input domains

CpuRead == [ok |-> TRUE, label |-> "cpu"]

Tick(u, i, w) == [user |-> u, idle |-> i, iowait |-> w]

RamOk == [ok |-> TRUE, totalram |-> 2, freeram |-> 1]

\* ------------------------------------------- the sampling thread on its own

\* Between two reads the OS accounts busy and idle ticks; iowait may also go
\* down (proc(5)), and the file may be unreadable.
SamplingTicks == {Tick(1, 1, 0), Tick(1, 0, 0), Tick(0, 0, 1), Tick(2, 0, -1)}
SamplingReads == {CpuRead, [ok |-> FALSE, label |-> ""],
                  [ok |-> TRUE, label |-> "intr"]}
SamplingRam == {RamOk}

UpdateSteps(Ticks, Reads, Infos, PopenOks) ==
    \/ UpdateSampleCpu(Ticks, Reads)
    \/ UpdateSampleRam(Infos)
    \/ UpdateLockHw
    \/ UpdateStoreCpu
    \/ UpdateStoreUsed
    \/ UpdateStoreTotal
    \/ UpdateErase
    \/ UpdatePush
    \/ UpdateUnlockHw
    \/ UpdateLockProc
    \/ UpdateQuery(PopenOks)
    \/ UpdateAssign
    \/ UpdateUnlockProc

NextSampling ==
    \/ Constructor(SamplingTicks, SamplingReads)
    \/ UpdateSteps(SamplingTicks, SamplingReads, SamplingRam, {TRUE})

SpecSampling == Init /\ [][NextSampling]_vars


\* ------------------------------------- Update() against a consumer thread

HardwareTicks == {Tick(1, 1, 0), Tick(1, 0, 0)}
HardwareReads == {CpuRead}
HardwareRam == {RamOk, [ok |-> TRUE, totalram |-> 2, freeram |-> 0]}

NextHardware ==
    \/ Constructor(HardwareTicks, HardwareReads)
    \/ UpdateSteps(HardwareTicks, HardwareReads, HardwareRam, {TRUE})
    \/ GetHardwareStatsLock
    \/ GetHardwareStatsCopyCpu
    \/ GetHardwareStatsCopyUsed
    \/ GetHardwareStatsCopyTotal
    \/ GetHardwareStatsUnlock
    \/ GetHardwareStatsDone
    \/ GetCpuHistory
    \/ ReadHistoryBegin
    \/ ReadHistoryEnd

SpecHardware == Init /\ [][NextHardware]_vars

\* -------------------------------------------- the process list and its users

PsLine(pid, comm, owned) == [pid |-> pid, comm |-> comm, owned |-> owned]

ProcessUniverse ==
    {PsLine(123, <<"C", "h", "r", "o", "m", "e">>, TRUE),
     PsLine(1, <<>>, FALSE)}

ProcessFilters == {<<>>, <<"C", "H">>, <<"1">>, <<"2", "3">>, <<"N">>}

ProcessPids == {123, 1, 999}

ProcessTicks == {Tick(1, 1, 0)}

NextProcess ==
    \/ Constructor(ProcessTicks, {CpuRead})
    \/ UpdateSteps(ProcessTicks, {CpuRead}, {RamOk}, {TRUE, FALSE})
    \/ GetProcessesCall(ProcessFilters)
    \/ GetProcessesLock
    \/ GetProcessesLoop
    \/ GetProcessesUnlock
    \/ GetProcessesDone
    \/ Terminate(ProcessPids)
    \/ Spawn(ProcessUniverse)

SpecProcess == Init /\ [][NextProcess]_vars

\* ------------------------------------- the weather worker and its requesters

Num(n) == [kind |-> "number", num |-> n]
Absent == [kind |-> "absent", num |-> 0]
Text == [kind |-> "text", num |-> 0]

\* A response body: whether it parses as JSON, whether it has the key
\* current_weather, whether that is an object, and the three fields read.
Body(wellFormed, hasCW, cwIsObject, t, w, c) ==
    [wellFormed |-> wellFormed, hasCW |-> hasCW, cwIsObject |-> cwIsObject,
     temperature |-> t, windspeed |-> w, weathercode |-> c]

WeatherBodies ==
    {Body(FALSE, FALSE, FALSE, Absent, Absent, Absent),
     Body(TRUE, FALSE, FALSE, Absent, Absent, Absent),
     Body(TRUE, TRUE, FALSE, Absent, Absent, Absent),
     Body(TRUE, TRUE, TRUE, Text, Num(5), Num(3)),
     Body(TRUE, TRUE, TRUE, Num(21), Num(5), Num(3)),
     Body(TRUE, TRUE, TRUE, Num(18), Absent, Num(61))}

CurlCodes == {"CURLE_OK", "CURLE_OPERATION_TIMEDOUT", "CURLE_COULDNT_CONNECT"}

WorkerSteps ==
    \/ WorkerLoop
    \/ WorkerPoll
    \/ FetchCurlInit({TRUE, FALSE})
    \/ FetchPerform(CurlCodes, WeatherBodies)
    \/ FetchLock
    \/ FetchStore
    \/ FetchUnlock
    \/ WorkerClear
    \/ WorkerSleep

NextWeather ==
    \/ Constructor(ProcessTicks, {CpuRead})
    \/ RequestWeatherRefresh
    \/ WorkerSteps
    \/ IsWeatherLoading
    \/ IsWeatherLoadingDone
    \/ GetWeatherLock
    \/ GetWeatherCopy
    \/ GetWeatherUnlock
    \/ GetWeatherDone
    \/ DestructorStop
    \/ DestructorJoin

SpecWeather == Init /\ [][NextWeather]_vars

\* The weather thread is scheduled as long as it can take a step.
SpecWeatherFair == SpecWeather /\ WF_vars(WorkerSteps)

\* Fair scheduling of the weather thread against the callers of GetWeather():
\* the thread is scheduled as long as it can take a step, it gets
\* m_weatherMutex if the mutex is free again and again, and a GetWeather()
\* call that holds the mutex goes on to release it.
SpecWeatherLive ==
    /\ SpecWeather
    /\ WF_vars(WorkerSteps)
    /\ SF_vars(FetchLock)
    /\ WF_vars(GetWeatherCopy \/ GetWeatherUnlock)


\* ------------------------------------------------------- the whole monitor

\* Every operation of the object, each input held to one typical value.
Next ==
    \/ Constructor(ProcessTicks, {CpuRead})
    \/ UpdateSteps(ProcessTicks, {CpuRead}, {RamOk}, {TRUE})
    \/ GetHardwareStatsLock
    \/ GetHardwareStatsCopyCpu
    \/ GetHardwareStatsCopyUsed
    \/ GetHardwareStatsCopyTotal
    \/ GetHardwareStatsUnlock
    \/ GetHardwareStatsDone
    \/ GetCpuHistory
    \/ ReadHistoryBegin
    \/ ReadHistoryEnd
    \/ GetProcessesCall({<<"C", "H">>})
    \/ GetProcessesLock
    \/ GetProcessesLoop
    \/ GetProcessesUnlock
    \/ GetProcessesDone
    \/ Terminate({123})
    \/ Spawn({PsLine(123, <<"C", "h", "r", "o", "m", "e">>, TRUE)})
    \/ RequestWeatherRefresh
    \/ WorkerLoop
    \/ WorkerPoll
    \/ FetchCurlInit({TRUE})
    \/ FetchPerform({"CURLE_OK", "CURLE_OPERATION_TIMEDOUT"},
                    {Body(TRUE, TRUE, TRUE, Num(21), Num(5), Num(3))})
    \/ FetchLock
    \/ FetchStore
    \/ FetchUnlock
    \/ WorkerClear
    \/ WorkerSleep
    \/ IsWeatherLoading
    \/ IsWeatherLoadingDone
    \/ GetWeatherLock
    \/ GetWeatherCopy
    \/ GetWeatherUnlock
    \/ GetWeatherDone
    \/ DestructorStop
    \/ DestructorJoin

Spec == Init /\ [][Next]_vars

\* ------------------------------------------------------------------ claims

\* The last n elements of s (all of s when it has at most n).
LastN(s, n) == IF Len(s) <= n THEN s ELSE SubSeq(s, Len(s) - n + 1, Len(s))

\* C1: the CPU history never holds more than MaxHistory samples, and between
\* two pushes it is exactly the most recent MaxHistory samples pushed, oldest
\* first (all of them while fewer than MaxHistory were pushed).
C1_HistoryIsLastSamples ==
    /\ Len(m_cpuHistory) <= MaxHistory
    /\ pcU # "push" => m_cpuHistory = LastN(sampleLog, MaxHistory)

\* C1 witness: more than MaxHistory updates are complete, the oldest sample
\* was evicted and the samples kept are not all equal.
C1_Witness ==
    /\ pcU = "idle"
    /\ Len(sampleLog) > MaxHistory
    /\ Len(m_cpuHistory) = MaxHistory
    /\ sampleLog[1] # m_cpuHistory[1]
    /\ m_cpuHistory[1] # m_cpuHistory[MaxHistory]

\* C5: the snapshot GetHardwareStats has copied, and returns, is a value that
\* one Update() stored whole (or the construction default): with the copy
\* complete and the lock still held it equals m_hwStats, and after the
\* return it is still one of the values stored whole.
C5_SnapshotNotTorn ==
    /\ pcR = "stats_unlock" => rdStats = m_hwStats
    /\ pcR \in {"stats_unlock", "stats_ret"} => rdStats \in storedStats

\* C5 witness: GetHardwareStats returned the snapshot of the first Update()
\* while a later Update() with different values waits for the lock.
C5_Witness ==
    /\ pcR = "stats_unlock"
    /\ pcU = "hw_lock"
    /\ nUpdates >= 2
    /\ rdStats # DefaultStats
    /\ rdStats.cpuLoadPercent # stats.cpuLoadPercent
    /\ rdStats.ramUsedGB # stats.ramUsedGB

\* C6: no reader is reading the CPU history while Update(), holding
\* m_hwMutex, is between the eviction and the append.
C6_HistoryReadsSerialize ==
    ~(pcR = "hist_read" /\ pcU = "push" /\ m_hwMutex = "drv")

\* C10: the cpuLoadPercent of the stored snapshot and every sample in the CPU
\* history lie within 0..100.
C10_CpuLoadInRange ==
    /\ m_hwStats.cpuLoadPercent \in 0..100
    /\ \A i \in 1..Len(m_cpuHistory) : m_cpuHistory[i] \in 0..100


UpperCase == <<"A", "B", "C", "D", "E", "F", "G", "H", "I", "J", "K", "L", "M",
               "N", "O", "P", "Q", "R", "S", "T", "U", "V", "W", "X", "Y", "Z">>
LowerCase == <<"a", "b", "c", "d", "e", "f", "g", "h", "i", "j", "k", "l", "m",
               "n", "o", "p", "q", "r", "s", "t", "u", "v", "w", "x", "y", "z">>

\* s with every upper-case letter replaced by its lower-case letter.
CaseFolded(s) ==
    [i \in 1..Len(s) |->
        IF \E k \in 1..Len(UpperCase) : UpperCase[k] = s[i]
        THEN LowerCase[CHOOSE k \in 1..Len(UpperCase) : UpperCase[k] = s[i]]
        ELSE s[i]]

\* needle occurs in hay as a block of consecutive characters.
Contains(hay, needle) ==
    \E i \in 0..(Len(hay) - Len(needle)) :
        \A k \in 1..Len(needle) : hay[i + k] = needle[k]

\* The decimal numeral of n >= 0, most significant digit first.
Decimal(n) ==
    LET len == CHOOSE k \in 1..10 : 10 ^ (k - 1) <= n + (IF n = 0 THEN 1 ELSE 0)
                                    /\ n < 10 ^ k
    IN  [i \in 1..len |-> DigitChar[((n \div (10 ^ (len - i))) % 10) + 1]]

\* The records of cache that a filter f selects, in cache order.
Selected(cache, f) ==
    SelectSeq(cache, LAMBDA p : \/ Contains(CaseFolded(p.name), CaseFolded(f))
                                \/ Contains(Decimal(p.pid), CaseFolded(f)))

\* C7: when the loop of GetProcesses(filter) has run, with the lock still
\* held, result is exactly the cached records, in cache order, whose
\* lower-cased name or decimal pid contains the lower-cased filter; with the
\* empty filter it is the whole cache, which is the list QueryProcesses
\* returned in the latest Update().
C7_FilterSelectsMatches ==
    pcR = "procs_unlock" =>
        /\ result = Selected(m_processesCache, filter)
        /\ filter = <<>> => (result = m_processesCache /\ result = lastListed)

\* C7 witness: an upper-case filter selected "Chrome" by its name and left
\* out the other cached record.
C7_Witness ==
    /\ pcR = "procs_unlock"
    /\ filter = <<"C", "H">>
    /\ Len(m_processesCache) = 2
    /\ Len(result) = 1
    /\ result[1].pid = 123

\* C8: a TerminateProcess call whose kill failed returned false with a
\* non-empty errorMessage, and no TerminateProcess call, failed or not, has
\* changed the cache: outside the assignment in Update() the cache is still
\* the list QueryProcesses returned in the latest Update().
C8_TerminateLeavesCache ==
    /\ (killRet.called /\ ~killRet.ok) => killRet.errorMessage # ""
    /\ pcU # "assign" => m_processesCache = lastListed

\* C8 witness: terminating the nonexistent pid 999 failed with the reason
\* of kill, while the cache lists a process that an earlier successful
\* TerminateProcess has ended.
C8_Witness ==
    /\ killRet.called
    /\ killRet.pid = 999
    /\ ~killRet.ok
    /\ killRet.errorMessage = "kill(SIGTERM) failed: No such process"
    /\ \E i \in 1..Len(m_processesCache) :
         /\ m_processesCache[i].pid = 123
         /\ \A p \in osProcs : p.pid # 123


\* The worker is inside FetchWeatherBlocking.
Fetching == pcW \in {"curl_init", "perform", "lock", "store", "unlock"}

\* C2: every period that starts with an accepted request and ends when the
\* worker clears the flag holds exactly one FetchWeatherBlocking call,
\* whatever the number of RequestWeatherRefresh calls: with the flag clear
\* there have been as many fetches as accepted requests, and with the flag
\* set at most the fetch of the open period is still to come.
C2_OneFetchPerPeriod ==
    /\ nAccepted <= nRequests
    /\ ~m_weatherLoading => nFetches = nAccepted
    /\ m_weatherLoading => nFetches \in {nAccepted - 1, nAccepted}

\* C2 witness: three requests were made in one period, two of them while
\* the refresh was pending or in flight, and the period ended with one fetch.
C2_Witness ==
    /\ nRequests = 3
    /\ nAccepted = 1
    /\ nFetches = 1
    /\ ~m_weatherLoading
    /\ pcW = "sleep"

\* The latest fetch is complete: its outcome is known and stored.
FetchComplete == outcome # "none" /\ pcW \notin {"lock", "store", "unlock"}

\* C3: once a fetch has failed and returned, m_weather is empty and the copy
\* GetWeather has taken under the lock is empty; m_weather holds a reading
\* only when the latest completed fetch succeeded.
C3_FailureClearsReading ==
    FetchComplete =>
        /\ outcome \in Failures =>
             /\ ~m_weather.has
             /\ pcR = "weather_unlock" => ~rdWeather.has
        /\ m_weather.has <=> outcome = "ok"

\* C3 witness: a second fetch failed and returned after a first one had
\* stored a reading, and GetWeather has copied the result.
C3_Witness ==
    /\ FetchComplete
    /\ outcome = "transfer_error"
    /\ nFetches = 2
    /\ pcR = "weather_unlock"
    /\ ~rdWeather.has

\* C4: the loading flag is set while an accepted request has not been served
\* by a completed fetch; it goes from set to clear only in the worker's step
\* after FetchWeatherBlocking returned, and that step clears it whatever the
\* outcome of the fetch.
C4_LoadingUntilFetchDone ==
    /\ []((nFetches < nAccepted \/ Fetching \/ pcW = "clear") => m_weatherLoading)
    /\ [][(m_weatherLoading /\ ~m_weatherLoading') =>
              (pcW = "clear" /\ nFetches = nAccepted)]_vars
    /\ [][(pcW = "clear" /\ pcW' # "clear") => ~m_weatherLoading']_vars

\* C4 witness: the flag is clear again after a fetch that failed.
C4_Witness ==
    /\ ~m_weatherLoading
    /\ nFetches = 1
    /\ nAccepted = 1
    /\ outcome = "malformed"
    /\ pcW = "sleep"

\* C9: the destructor has returned only in states where the weather thread
\* has exited; once the stop flag is set the thread eventually exits; and
\* after the destructor has returned nothing the worker writes changes.
C9_TeardownJoinsWorker ==
    /\ [](phase = "destroyed" => pcW = "exited")
    /\ (m_weatherThreadStop ~> pcW = "exited")
    /\ [][phase = "destroyed" =>
              UNCHANGED <<pcW, m_weather, m_weatherLoading, nFetches>>]_vars

\* C9 witness: the destructor set the stop flag while a fetch was in flight
\* and has not returned.
C9_Witness ==
    /\ phase = "joining"
    /\ m_weatherThreadStop
    /\ pcW = "perform"

\* C11: the first SampleCpuUsage() call after startup, the one the
\* constructor makes with no previous observation, returns 0.
C11_FirstSampleIsBaseline ==
    (phase = "live" /\ nUpdates = 0) => cpu = 0

\* FetchWeatherBlocking executions that have started and not returned.
InFlight == nFetches - nReturned

\* C12: at most one FetchWeatherBlocking execution is active at any time,
\* and it is the one the weather thread is inside, whatever the number and
\* the timing of the RequestWeatherRefresh calls.
C12_AtMostOneFetchInFlight ==
    /\ InFlight \in {0, 1}
    /\ InFlight = 1 <=> Fetching

\* C12 witness: a second fetch is in its network call after the first one
\* returned, with three RequestWeatherRefresh calls made so far.
C12_Witness ==
    /\ pcW = "perform"
    /\ nRequests = 3
    /\ nFetches = 2
    /\ nReturned = 1

\* C13: whenever the loading flag is set, the worker eventually performs the
\* fetch of that request and the flag eventually becomes false again; in
\* particular the weather thread never ends with the flag still set.
C13_RequestEventuallyServed ==
    /\ [](pcW = "exited" => ~m_weatherLoading)
    /\ (m_weatherLoading ~> ~m_weatherLoading)
    /\ (nFetches < nAccepted ~> nFetches = nAccepted)

\* C13 as amended: whenever the loading flag is set, either the worker
\* eventually performs the fetch of that request and the flag eventually
\* becomes false again, or the destructor sets the stop flag first.
C13_RequestServedUnlessStopped ==
    /\ (m_weatherLoading ~> (~m_weatherLoading \/ m_weatherThreadStop))
    /\ (nFetches < nAccepted ~> (nFetches = nAccepted \/ m_weatherThreadStop))

\* C13 witness: two requests were accepted one after the other and both
\* have been served, with no teardown.
C13_Witness ==
    /\ nAccepted = 2
    /\ nFetches = 2
    /\ nReturned = 2
    /\ ~m_weatherLoading
    /\ ~m_weatherThreadStop

\* C14: the worker fetches only for an accepted request that has not been
\* fetched yet, so the fetches never outnumber the accepted requests, and
\* after a fetch that failed and returned no further fetch starts until
\* another RequestWeatherRefresh call is accepted.
C14_NoAutomaticRetry ==
    /\ [](nFetches <= nAccepted)
    /\ [][nFetches' # nFetches =>
              (nFetches' = nFetches + 1 /\ nFetches < nAccepted)]_vars
    /\ [][(outcome \in Failures /\ ~Fetching /\ nFetches' # nFetches) =>
              nAccepted > nReturned]_vars

\* C14 witness: the first fetch failed, the worker went through its loop
\* without fetching again, and a second accepted request has now started
\* the second fetch.
C14_Witness ==
    /\ outcome \in Failures
    /\ pcW = "curl_init"
    /\ nFetches = 2
    /\ nAccepted = 2
    /\ nReturned = 1

\* C15: m_weatherMutex is held by the worker only for the assignment to
\* m_weather, never while the fetch is at curl_easy_init or in the network
\* call; m_hwMutex is held by Update() only for the stores to m_hwStats and
\* m_cpuHistory, never while it samples the CPU or the RAM or enumerates the
\* processes; so while a fetch or a sampling call is in progress a reader
\* finds the lock free or held by no one but itself.
C15_LocksNotHeldAcrossBlockingCalls ==
    /\ m_weatherMutex = "wrk" <=> pcW \in {"store", "unlock"}
    /\ pcW \in {"curl_init", "perform"} => m_weatherMutex \in {"free", "rdr"}
    /\ m_hwMutex = "drv" <=>
          pcU \in {"store_cpu", "store_used", "store_total", "erase", "push",
                   "hw_unlock"}
    /\ pcU \in {"idle", "ram", "query"} => m_hwMutex \in {"free", "rdr"}

\* C15 witness: the fetch is in its network call and Update() is between its
\* CPU and RAM sampling while GetWeather() holds the weather lock and the
\* hardware lock is free.
C15_Witness ==
    /\ pcW = "perform"
    /\ pcU = "ram"
    /\ pcR = "weather_copy"
    /\ m_weatherMutex = "rdr"
    /\ m_hwMutex = "free"

\* C16: the cache changes only in the assignment of Update(), made with
\* m_procMutex held, which replaces it by the whole list QueryProcesses
\* returned; no step of GetProcesses changes it, and it does not change
\* while GetProcesses is in its loop or holds its result under the lock, so
\* the records the loop has kept so far are the matches among the records
\* it has passed of the one list the cache holds, before or after a refresh.
C16_CacheReplacedWholesale ==
    /\ [][m_processesCache' # m_processesCache =>
              /\ pcU = "assign"
              /\ m_procMutex = "drv"
              /\ m_processesCache' = lastListed]_vars
    /\ [][pcR' # pcR => m_processesCache' = m_processesCache]_vars
    /\ [][(pcR = "procs_loop" \/ pcR = "procs_unlock") =>
              (m_processesCache' = m_processesCache)]_vars
    /\ [](pcR \in {"procs_loop", "procs_unlock"} =>
              /\ idx <= Len(m_processesCache) + 1
              /\ result = Selected(SubSeq(m_processesCache, 1, idx - 1), filter))

\* C16 witness: GetProcesses has passed the first of two cached records in
\* its loop while Update() waits for the lock with different processes
\* running than the cache lists.
C16_Witness ==
    /\ pcR = "procs_loop"
    /\ idx = 2
    /\ Len(m_processesCache) = 2
    /\ pcU = "proc_lock"
    /\ Cardinality(osProcs) = 1

\* Update() is past the locked block of UpdateHardware.
HardwareStored ==
    pcU \in {"hw_unlock", "proc_lock", "query", "assign", "proc_unlock"}

\* C17: a SampleCpuUsage() call that cannot read the counters returns 0 and
\* leaves m_lastTotalJiffies and m_lastIdleJiffies as they were, and the
\* Update() that made the call still stores a snapshot with load 0 and
\* appends the sample 0 to the history.
C17_UnreadableCountersGiveZero ==
    /\ [](~statOk => cpu = 0)
    /\ [][((nUpdates' # nUpdates \/ phase' # phase) /\ ~statOk') =>
              /\ m_lastTotalJiffies' = m_lastTotalJiffies
              /\ m_lastIdleJiffies' = m_lastIdleJiffies]_vars
    /\ []((~statOk /\ HardwareStored) =>
              /\ m_hwStats.cpuLoadPercent = 0
              /\ Len(sampleLog) = nUpdates
              /\ m_cpuHistory # <<>>
              /\ m_cpuHistory[Len(m_cpuHistory)] = 0)

\* C17 witness: an Update() whose read of the counters failed has stored its
\* snapshot and appended 0 after a non-zero sample, with a non-zero baseline
\* kept from the earlier reads.
C17_Witness ==
    /\ ~statOk
    /\ pcU = "hw_unlock"
    /\ m_lastTotalJiffies > 0
    /\ Len(m_cpuHistory) >= 2
    /\ m_cpuHistory[Len(m_cpuHistory) - 1] # 0
    /\ m_cpuHistory[Len(m_cpuHistory)] = 0
    /\ m_hwStats.cpuLoadPercent = 0

\* C18: whenever the loading flag is clear, the fetch of every accepted
\* request has written its outcome to m_weather and returned; so a consumer
\* that saw IsWeatherLoading() return false and then calls GetWeather()
\* copies, whole, a value written by the fetch of the latest request
\* accepted before it looked, or by a later one, never the value from
\* before that fetch.
C18_OutcomeVisibleWhenLoadingClears ==
    /\ ~m_weatherLoading => nReturned = nAccepted
    /\ pcR = "loading_ret" /\ ~rdLoading => nReturned >= seenAccepted
    /\ pcR \in {"weather_unlock", "weather_ret"} => seenReturned >= seenAccepted
    /\ pcR = "weather_unlock" => rdWeather = m_weather

\* C18 witness: the consumer saw the flag clear after the second accepted
\* request and its GetWeather() has copied the reading the second fetch
\* stored.
C18_Witness ==
    /\ pcR = "weather_unlock"
    /\ seenAccepted = 2
    /\ seenReturned = 2
    /\ rdWeather.has
    /\ outcome = "ok"

\* The Update() calls whose UpdateHardware has finished its locked block.
UpdatesStored ==
    IF pcU \in {"ram", "hw_lock", "store_cpu", "store_used", "store_total",
                "erase", "push"}
    THEN nUpdates - 1
    ELSE nUpdates

\* C19: in every state in which Update() does not hold m_hwMutex, the CPU
\* history is empty exactly when no Update() has stored yet (the
\* constructor's priming sample is not recorded), and otherwise its last
\* element is the cpuLoadPercent of the snapshot.
C19_SnapshotAndHistoryTogether ==
    m_hwMutex # "drv" =>
        /\ m_cpuHistory = <<>> <=> UpdatesStored = 0
        /\ UpdatesStored = 0 => m_hwStats = DefaultStats
        /\ UpdatesStored > 0 =>
              m_cpuHistory[Len(m_cpuHistory)] = m_hwStats.cpuLoadPercent

\* C19 witness: GetHardwareStats holds the lock after the first Update()
\* while a second Update() with a different sample waits for it.
C19_Witness ==
    /\ m_hwMutex = "rdr"
    /\ pcU = "hw_lock"
    /\ nUpdates = 2
    /\ Len(m_cpuHistory) = 1
    /\ m_cpuHistory[1] = m_hwStats.cpuLoadPercent
    /\ stats.cpuLoadPercent # m_hwStats.cpuLoadPercent

\* The mutexes thread t owns.
LocksHeld(t) ==
    {m \in {"hw", "proc", "weather"} :
        \/ m = "hw" /\ m_hwMutex = t
        \/ m = "proc" /\ m_procMutex = t
        \/ m = "weather" /\ m_weatherMutex = t}

\* Thread t is about to acquire a mutex, or is blocked on one.
Acquiring(t) ==
    \/ t = "drv" /\ pcU \in {"hw_lock", "proc_lock"}
    \/ t = "rdr" /\ pcR \in {"idle", "loading_ret", "procs_lock"}
    \/ t = "wrk" /\ pcW = "lock"

\* C20: no thread owns more than one of m_hwMutex, m_procMutex and
\* m_weatherMutex, and a thread that is acquiring one owns none, so no
\* thread waits for a lock while it keeps another thread waiting; the owner
\* of a lock is inside the block that ends with its release; and the
\* destructor waits for the weather thread while the calling threads own no
\* lock.
C20_AtMostOneLockHeld ==
    /\ \A t \in {"drv", "rdr", "wrk"} :
          /\ Cardinality(LocksHeld(t)) <= 1
          /\ Acquiring(t) => LocksHeld(t) = {}
    /\ m_procMutex = "drv" <=> pcU \in {"query", "assign", "proc_unlock"}
    /\ m_hwMutex = "rdr" <=>
          pcR \in {"copy_cpu", "copy_used", "copy_total", "stats_unlock"}
    /\ m_procMutex = "rdr" <=> pcR \in {"procs_loop", "procs_unlock"}
    /\ m_weatherMutex = "rdr" <=> pcR \in {"weather_copy", "weather_unlock"}
    /\ phase \in {"joining", "destroyed"} =>
          LocksHeld("drv") = {} /\ LocksHeld("rdr") = {}

\* C20 witness: the three locks are owned by three different threads at the
\* same time.
C20_Witness ==
    /\ m_procMutex = "drv"
    /\ m_hwMutex = "rdr"
    /\ m_weatherMutex = "wrk"

\* C21: a step of Update() or of TerminateProcess() leaves m_weather and the
\* loading flag unchanged; a step of the running weather thread, a fetch
\* included, leaves the hardware snapshot, the CPU history, the CPU
\* baseline and the process cache unchanged; and m_weather changes only in
\* the worker's assignment under m_weatherMutex.
C21_FlowsWriteDisjointState ==
    /\ [][(pcU' # pcU \/ killRet' # killRet \/ osProcs' # osProcs) =>
              UNCHANGED <<m_weather, m_weatherLoading>>]_vars
    /\ [][(pcW # "unstarted" /\ pcW' # pcW) =>
              UNCHANGED <<m_hwStats, m_cpuHistory, m_lastTotalJiffies,
                          m_lastIdleJiffies, m_processesCache>>]_vars
    /\ [][m_weather' # m_weather =>
              (pcW = "store" /\ pcW' = "unlock" /\ m_weatherMutex = "wrk")]_vars

\* C21 witness: the worker is about to replace a stored reading while
\* Update() is about to replace a non-empty process cache, after a
\* TerminateProcess() call.
C21_Witness ==
    /\ pcW = "store"
    /\ m_weather.has
    /\ pcU = "assign"
    /\ m_processesCache # <<>>
    /\ m_cpuHistory # <<>>
    /\ killRet.called

====
